---- MODULE Spec2Model ----
(***************************************************************************)
(* Model of Wordle_Solver.py: the feedback parsers, the constraint         *)
(* accumulator, the candidate filter and the interactive loop that drives  *)
(* them.  Strings are sequences of one-character strings; Python's 0-based *)
(* index i of a string s is s[i + 1] here.                                 *)
(***************************************************************************)
EXTENDS Integers, Sequences, FiniteSets, TLC

\* Upper bound on the number of iterations of the loop in a session whose
\* lines are arbitrary.
MaxRounds == 2

\* Upper bound on the number of iterations of the loop in a session whose
\* feedback is the game's.
MaxHonestRounds == 4

(***************************************************************************)
(* Characters and the str methods the program uses on them                 *)
(***************************************************************************)
LowerLetters == {"a", "b"}

Lower(ch) == IF ch = "A" THEN "a" ELSE ch

IsAlpha(ch) == ch \in {"a", "b", "q", "A"}

IsAlphaStr(s) == Len(s) >= 1 /\ \A i \in 1..Len(s) : IsAlpha(s[i])

LowerStr(s) == [i \in 1..Len(s) |-> Lower(s[i])]

Range(s) == {s[i] : i \in 1..Len(s)}

\* collections.Counter(w).get(ch, 0)
CountIn(ch, w) == Cardinality({i \in 1..Len(w) : w[i] = ch})

IsDigit(ch) == ch \in {"0", "1", "2", "3"}

DigitVal(ch) == CASE ch = "0" -> 0 [] ch = "1" -> 1 [] ch = "2" -> 2 [] OTHER -> 3

\* int(pos) succeeds
IsIntStr(s) == Len(s) >= 1 /\ \A i \in 1..Len(s) : IsDigit(s[i])

RECURSIVE IntOf(_)
IntOf(s) == IF Len(s) = 0 THEN 0
            ELSE 10 * IntOf(SubSeq(s, 1, Len(s) - 1)) + DigitVal(s[Len(s)])

(***************************************************************************)
(* The word list and the lines the operator can type                       *)
(***************************************************************************)
\* load_words: the stripped, lower-cased, non-empty lines of the file
Dictionary == << <<"a", "b">>, <<"b", "a">>, <<"a", "a">>, <<"b">>,
                 <<"a", "b", "b">>, <<"b", "a", "b">>, <<"a", "a", "b">>,
                 <<"b", "b", "a">>, <<"b", "b">>, <<"a", "b", "a">> >>

WordsOfLen(n) == [1..n -> LowerLetters]

Guesses == WordsOfLen(1) \cup WordsOfLen(2)
           \cup {<<"A", "b">>, <<"a", "1">>, <<"q">>}

PatternsOfLen(n) == [1..n -> LowerLetters \cup {"."}]

Patterns == PatternsOfLen(1) \cup PatternsOfLen(2)
            \cup {<<"A", "_">>, <<"a", "1">>}

GoodTokenList == << <<"a", "@", "1">>, <<"a", "@", "2">>,
                   <<"b", "@", "1">>, <<"b", "@", "2">> >>

BadTokens == {<<"a">>, <<"1", "@", "1">>, <<"a", "@", ".">>, <<"a", "@", "0">>,
              <<"a", "@", "3">>}

\* the yellows line after the split on commas and blanks
YellowLines == {<<>>}
               \cup {<<GoodTokenList[i]>> : i \in 1..4}
               \cup {<<GoodTokenList[p[1]], GoodTokenList[p[2]]>> :
                         p \in {q \in (1..4) \X (1..4) : q[1] <= q[2]}}
               \cup {<<t>> : t \in BadTokens}
               \cup {<<<<"A", "@", "1">>>>, <<<<"b", "@", "2">>, <<"a">>>>}

(***************************************************************************)
(* Python values: dicts are functions whose DOMAIN is the key set, and an  *)
(* Optional[int] is <<>> (None) or <<n>>                                   *)
(***************************************************************************)
EmptyDict == <<>>

Get(d, k, default) == IF k \in DOMAIN d THEN d[k] ELSE default

\* dict.update
DictUpdate(d, u) == [k \in DOMAIN d \cup DOMAIN u |-> IF k \in DOMAIN u THEN u[k] ELSE d[k]]

None == <<>>

Some(n) == <<n>>

Val(opt) == opt[1]

(***************************************************************************)
(* Pattern parsers                                                         *)
(***************************************************************************)
filter_by_length(words, length) == SelectSeq(words, LAMBDA w : Len(w) = length)

\* parse_greens_pattern returns normally (raises no ValueError)
greens_pattern_ok(pattern) ==
    \A i \in 1..Len(pattern) : pattern[i] \in {".", "_"} \/ IsAlpha(pattern[i])

\* the loop of lines 35-39 from 0-based index i on, out being the dict so far
RECURSIVE greens_from(_, _, _)
greens_from(pattern, i, out) ==
    IF i >= Len(pattern) THEN out
    ELSE IF pattern[i + 1] \notin {".", "_"}
         THEN greens_from(pattern, i + 1, out @@ (i :> Lower(pattern[i + 1])))
         ELSE greens_from(pattern, i + 1, out)

parse_greens_pattern(pattern) == greens_from(pattern, 0, EmptyDict)

\* p.split("@", 1)
AtIndex(p) == CHOOSE i \in 1..Len(p) : p[i] = "@" /\ \A j \in 1..(i - 1) : p[j] # "@"

TokenLetter(p) == SubSeq(p, 1, AtIndex(p) - 1)

TokenPos(p) == SubSeq(p, AtIndex(p) + 1, Len(p))

yellow_token_ok(p, word_len) ==
    /\ "@" \in Range(p)
    /\ Len(TokenLetter(p)) = 1
    /\ IsAlpha(TokenLetter(p)[1])
    /\ IsIntStr(TokenPos(p))
    /\ 1 <= IntOf(TokenPos(p))
    /\ IntOf(TokenPos(p)) <= word_len

\* parse_yellows returns normally (raises no ValueError)
yellows_ok(spec, word_len) == \A i \in 1..Len(spec) : yellow_token_ok(spec[i], word_len)

\* the loop of lines 53-65 over the first n tokens
RECURSIVE yellows_upto(_, _)
yellows_upto(spec, n) ==
    IF n = 0 THEN <<>>
    ELSE Append(yellows_upto(spec, n - 1),
                <<Lower(TokenLetter(spec[n])[1]), IntOf(TokenPos(spec[n])) - 1>>)

parse_yellows(spec, word_len) == yellows_upto(spec, Len(spec))

(***************************************************************************)
(* update_constraints_from_feedback                                        *)
(***************************************************************************)
YellowLetters(yellows) == {yellows[k][1] : k \in 1..Len(yellows)}

\* the Counter gy_count after both marking loops; an absent key reads 0
gy_count(guess, greens, yellows) ==
    [ch \in Range(LowerStr(guess)) \cup YellowLetters(yellows) |->
        Cardinality({i \in 0..(Len(guess) - 1) :
                        /\ i \in DOMAIN greens
                        /\ Lower(greens[i]) = Lower(guess[i + 1])
                        /\ Lower(guess[i + 1]) = ch})
        + Cardinality({k \in 1..Len(yellows) :
                        /\ yellows[k][1] = ch
                        /\ 0 <= yellows[k][2]
                        /\ yellows[k][2] < Len(guess)
                        /\ Lower(guess[yellows[k][2] + 1]) = ch})]

new_banned_positions(banned_positions, yellows) ==
    [letter \in DOMAIN banned_positions \cup YellowLetters(yellows) |->
        Get(banned_positions, letter, {})
        \cup {yellows[k][2] : k \in {j \in 1..Len(yellows) : yellows[j][1] = letter}}]

new_min_counts_assign(required_min_counts, gy) ==
    [letter \in DOMAIN required_min_counts \cup {ch \in DOMAIN gy : gy[ch] > 0} |->
        IF letter \in DOMAIN gy /\ gy[letter] > 0
        THEN gy[letter]
        ELSE required_min_counts[letter]]

new_min_counts(required_min_counts, gy) ==
    [letter \in DOMAIN required_min_counts \cup {ch \in DOMAIN gy : gy[ch] > 0} |->
        IF letter \in DOMAIN gy /\ gy[letter] > Get(required_min_counts, letter, 0)
        THEN gy[letter]
        ELSE required_min_counts[letter]]

greys_any_unmarked(guess, greens, yellows) ==
    {ch \in Range(LowerStr(guess)) :
        gy_count(guess, greens, yellows)[ch] < CountIn(ch, LowerStr(guess))}

greys(guess, greens, yellows) ==
    {ch \in Range(LowerStr(guess)) : gy_count(guess, greens, yellows)[ch] = 0}

update_constraints_from_feedback(guess, greens, yellows, required_min_counts, banned_positions, excluded_letters) ==
    [required_min_counts |-> new_min_counts(required_min_counts,
                                            gy_count(guess, greens, yellows)),
     banned_positions    |-> new_banned_positions(banned_positions, yellows),
     excluded_letters    |-> excluded_letters \cup greys(guess, greens, yellows)]

(***************************************************************************)
(* candidate_ok and filter_candidates                                      *)
(***************************************************************************)
candidate_ok_no_banned(word, greens, required_min_counts, banned_positions, excluded_letters) ==
    LET w == LowerStr(word) IN
    /\ \A i \in DOMAIN greens : w[i + 1] = greens[i]
    /\ \A ch \in excluded_letters : ch \notin Range(w)
    /\ \A letter \in DOMAIN required_min_counts :
          CountIn(letter, w) >= required_min_counts[letter]

candidate_ok(word, greens, required_min_counts, banned_positions, excluded_letters) ==
    LET w == LowerStr(word) IN
    /\ \A i \in DOMAIN greens : w[i + 1] = greens[i]
    /\ \A ch \in excluded_letters : ch \notin Range(w)
    /\ \A letter \in DOMAIN banned_positions :
          /\ letter \in Range(w)
          /\ \A i \in banned_positions[letter] : w[i + 1] # letter
    /\ \A letter \in DOMAIN required_min_counts :
          CountIn(letter, w) >= required_min_counts[letter]

filter_candidates(words, greens, required_min_counts, banned_positions, excluded_letters) ==
    SelectSeq(words, LAMBDA w : candidate_ok(w, greens, required_min_counts,
                                             banned_positions, excluded_letters))

(***************************************************************************)
(* interactive_loop: its locals are the state.  One iteration of the while *)
(* loop blocks in input() three times; each action is the code that runs   *)
(* from one input() returning to the next input() being called.            *)
(***************************************************************************)
VARIABLES
    current_words,          \* List[str]
    required_min_counts,    \* Dict[str, int]
    banned_positions,       \* defaultdict(set)
    excluded_letters,       \* Set[str]
    greens,                 \* Dict[int, str]
    word_len,               \* None until the first alphabetic guess
    guess,                  \* this iteration's guess, <<>> outside lines 185-224
    greens_update,          \* this iteration's parsed pattern, <<>> outside 202-224
    pc,                     \* the input() the loop blocks in, "done" after break
    outcome,                \* how the last finished iteration ended
    iterations,             \* number of finished iterations
    round_start,            \* history: <<State>> as it was when this iteration
                            \* read its guess, <<>> between iterations
    accumulated,            \* history: the constraints as line 219 left them in the
                            \* last finished iteration, <<>> if it never got there
    max_occ,                \* history: per letter, its largest number of occurrences
                            \* in one guess of a completed round
    overwrote,              \* history: line 202 has replaced a green by another letter
    target                  \* the game's hidden word (honest sessions only)

vars == <<current_words, required_min_counts, banned_positions, excluded_letters,
          greens, word_len, guess, greens_update, pc, outcome, iterations,
          round_start, accumulated, max_occ, overwrote, target>>

QuitWords == {<<"q">>, <<"q", "u", "i", "t">>, <<"e", "x", "i", "t">>}

Completed == {"empty", "shown"}

State == [current_words       |-> current_words,
          required_min_counts |-> required_min_counts,
          banned_positions    |-> banned_positions,
          excluded_letters    |-> excluded_letters,
          greens              |-> greens,
          word_len            |-> word_len]

Constraints(st) == [required_min_counts |-> st.required_min_counts,
                    banned_positions    |-> st.banned_positions,
                    excluded_letters    |-> st.excluded_letters,
                    greens              |-> st.greens]

\* lines 185-187
establish_length(st, g) ==
    IF st.word_len = None
    THEN [st EXCEPT !.word_len = Some(Len(g)),
                    !.current_words = filter_by_length(st.current_words, Len(g))]
    ELSE st

\* line 202
merge_greens_replace(st, update) == [st EXCEPT !.greens = update]

merge_greens(st, update) == [st EXCEPT !.greens = DictUpdate(st.greens, update)]

\* lines 212-219: the call's in-place updates of the three structures
with_update(st, upd) ==
    [st EXCEPT !.required_min_counts = upd.required_min_counts,
               !.banned_positions = upd.banned_positions,
               !.excluded_letters = upd.excluded_letters]

\* lines 206-219, st being the state line 202 left
feed_back(st, g, update, yp) ==
    with_update(st, update_constraints_from_feedback(
                        LowerStr(g), update, parse_yellows(yp, Val(st.word_len)),
                        st.required_min_counts, st.banned_positions,
                        st.excluded_letters))

\* lines 222-224
narrow(st) ==
    [st EXCEPT !.current_words =
        filter_candidates(st.current_words, st.greens, st.required_min_counts,
                          st.banned_positions, st.excluded_letters)]

rollback_if_empty(st, new) ==
    IF new.current_words = <<>>
    THEN [new EXCEPT !.required_min_counts = st.required_min_counts,
                     !.banned_positions = st.banned_positions,
                     !.excluded_letters = st.excluded_letters]
    ELSE new

finish_round_rollback(st, g, update, yp) ==
    rollback_if_empty(st, narrow(feed_back(st, g, update, yp)))

reload(st) ==
    [st EXCEPT !.current_words = filter_by_length(Dictionary, Val(st.word_len))]

finish_round_from_dictionary(st, g, update, yp) ==
    narrow(reload(feed_back(st, g, update, yp)))

\* lines 206-224, st being the state line 202 left
finish_round(st, g, update, yp) == narrow(feed_back(st, g, update, yp))

Install(st) ==
    /\ current_words' = st.current_words
    /\ required_min_counts' = st.required_min_counts
    /\ banned_positions' = st.banned_positions
    /\ excluded_letters' = st.excluded_letters
    /\ greens' = st.greens
    /\ word_len' = st.word_len

Replaces(old, new) == \E i \in DOMAIN old \cap DOMAIN new : old[i] # new[i]

Max(a, b) == IF a >= b THEN a ELSE b

Init ==
    /\ current_words = Dictionary
    /\ required_min_counts = EmptyDict
    /\ banned_positions = EmptyDict
    /\ excluded_letters = {}
    /\ greens = EmptyDict
    /\ word_len = None
    /\ guess = <<>>
    /\ greens_update = <<>>
    /\ pc = "guess"
    /\ outcome = "start"
    /\ iterations = 0
    /\ round_start = <<>>
    /\ accumulated = <<>>
    /\ max_occ = [l \in LowerLetters |-> 0]
    /\ overwrote = FALSE
    /\ target = <<>>

\* the loop blocks in line 178 and the exploration has iterations left
AtPrompt ==
    /\ pc = "guess"
    /\ iterations < (IF target = <<>> THEN MaxRounds ELSE MaxHonestRounds)

\* continue, or the end of the loop body: back to line 178
EndIteration(how) ==
    /\ pc' = "guess"
    /\ outcome' = how
    /\ iterations' = iterations + 1
    /\ guess' = <<>>
    /\ greens_update' = <<>>
    /\ round_start' = <<>>

\* lines 178-180
Quit(g) ==
    /\ AtPrompt
    /\ LowerStr(g) \in QuitWords
    /\ pc' = "done"
    /\ outcome' = "quit"
    /\ iterations' = iterations + 1
    /\ accumulated' = <<>>
    /\ UNCHANGED <<current_words, required_min_counts, banned_positions,
                   excluded_letters, greens, word_len, guess, greens_update,
                   round_start, max_occ, overwrote, target>>

\* lines 181-183
RejectGuess(g) ==
    /\ AtPrompt
    /\ LowerStr(g) \notin QuitWords
    /\ ~IsAlphaStr(g)
    /\ EndIteration("rejected")
    /\ accumulated' = <<>>
    /\ UNCHANGED <<current_words, required_min_counts, banned_positions,
                   excluded_letters, greens, word_len, max_occ, overwrote, target>>

\* lines 189-191
RejectLength(g) ==
    /\ AtPrompt
    /\ LowerStr(g) \notin QuitWords
    /\ IsAlphaStr(g)
    /\ word_len # None
    /\ Len(g) # Val(word_len)
    /\ EndIteration("rejected")
    /\ accumulated' = <<>>
    /\ UNCHANGED <<current_words, required_min_counts, banned_positions,
                   excluded_letters, greens, word_len, max_occ, overwrote, target>>

\* the guess passes lines 179-191
GuessAccepted(g) ==
    /\ LowerStr(g) \notin QuitWords
    /\ IsAlphaStr(g)
    /\ word_len # None => Len(g) = Val(word_len)

\* lines 178-193: the guess is accepted and the pattern is asked for
AcceptGuess(g) ==
    /\ AtPrompt
    /\ GuessAccepted(g)
    /\ Install(establish_length(State, g))
    /\ guess' = g
    /\ pc' = "pattern"
    /\ outcome' = "pending"
    /\ round_start' = <<State>>
    /\ accumulated' = <<>>
    /\ UNCHANGED <<greens_update, iterations, max_occ, overwrote, target>>

\* the pattern passes lines 194-201
PatternAccepted(gp) == Len(gp) = Val(word_len) /\ greens_pattern_ok(gp)

\* lines 193-201: the pattern has the wrong length or parse_greens_pattern raises
RejectPattern(gp) ==
    /\ pc = "pattern"
    /\ ~PatternAccepted(gp)
    /\ EndIteration("format_error")
    /\ UNCHANGED <<current_words, required_min_counts, banned_positions,
                   excluded_letters, greens, word_len, accumulated, max_occ,
                   overwrote, target>>

\* lines 193-204: the pattern is accepted, merged, and the yellows are asked for
AcceptPattern(gp) ==
    /\ pc = "pattern"
    /\ PatternAccepted(gp)
    /\ Install(merge_greens(State, parse_greens_pattern(gp)))
    /\ greens_update' = parse_greens_pattern(gp)
    /\ overwrote' = (overwrote \/ Replaces(greens, parse_greens_pattern(gp)))
    /\ pc' = "yellows"
    /\ UNCHANGED <<guess, outcome, iterations, round_start, accumulated, max_occ,
                   target>>

\* lines 204-209: parse_yellows raises
RejectYellows(yp) ==
    /\ pc = "yellows"
    /\ ~yellows_ok(yp, Val(word_len))
    /\ EndIteration("format_error")
    /\ UNCHANGED <<current_words, required_min_counts, banned_positions,
                   excluded_letters, greens, word_len, accumulated, max_occ,
                   overwrote, target>>

\* lines 204-243: the yellows are accepted and the round is carried out
CompleteRound(yp) ==
    /\ pc = "yellows"
    /\ yellows_ok(yp, Val(word_len))
    /\ accumulated' = <<Constraints(feed_back(State, guess, greens_update, yp))>>
    /\ Install(finish_round(State, guess, greens_update, yp))
    /\ EndIteration(IF current_words' = <<>> THEN "empty" ELSE "shown")
    /\ max_occ' = [l \in LowerLetters |-> Max(max_occ[l], CountIn(l, LowerStr(guess)))]
    /\ UNCHANGED <<overwrote, target>>

Next ==
    \/ \E g \in Guesses :
          \/ Quit(g)
          \/ RejectGuess(g)
          \/ RejectLength(g)
          \/ AcceptGuess(g)
    \/ \E gp \in Patterns :
          \/ RejectPattern(gp)
          \/ AcceptPattern(gp)
    \/ \E yp \in YellowLines :
          \/ RejectYellows(yp)
          \/ CompleteRound(yp)

Spec == Init /\ [][Next]_vars

(***************************************************************************)
(* Honest sessions: the operator copies the game's feedback for a hidden   *)
(* target word of the dictionary.  The game marks the positions where      *)
(* guess and target agree, then, left to right, marks an unmarked letter   *)
(* present-but-misplaced while the target has occurrences of it that no    *)
(* mark accounts for yet.                                                  *)
(***************************************************************************)
GameGreen(g, word, i) == Lower(g[i]) = word[i]

GameYellow(g, word, i) ==
    /\ ~GameGreen(g, word, i)
    /\ Cardinality({j \in 1..(i - 1) : /\ Lower(g[j]) = Lower(g[i])
                                        /\ ~GameGreen(g, word, j)})
         < CountIn(Lower(g[i]), word)
           - Cardinality({j \in 1..Len(g) : /\ Lower(g[j]) = Lower(g[i])
                                                /\ GameGreen(g, word, j)})

DigitOf(n) == CASE n = 1 -> "1" [] n = 2 -> "2" [] OTHER -> "3"

\* the greens line the operator types: the guess's letter where the game shows green
HonestPattern(g, word) ==
    [i \in 1..Len(g) |-> IF GameGreen(g, word, i) THEN g[i] ELSE "."]

\* the yellows line the operator types: letter@position of every yellow, in order
RECURSIVE HonestYellowsUpto(_, _, _)
HonestYellowsUpto(g, word, n) ==
    IF n = 0 THEN <<>>
    ELSE IF GameYellow(g, word, n)
         THEN Append(HonestYellowsUpto(g, word, n - 1), <<g[n], "@", DigitOf(n)>>)
         ELSE HonestYellowsUpto(g, word, n - 1)

HonestYellows(g, word) == HonestYellowsUpto(g, word, Len(g))

HonestGuesses == WordsOfLen(1) \cup WordsOfLen(2) \cup WordsOfLen(3)
                 \cup {<<"A", "b">>, <<"b", "A", "a">>}

InitHonest ==
    /\ current_words = Dictionary
    /\ required_min_counts = EmptyDict
    /\ banned_positions = EmptyDict
    /\ excluded_letters = {}
    /\ greens = EmptyDict
    /\ word_len = None
    /\ guess = <<>>
    /\ greens_update = <<>>
    /\ pc = "guess"
    /\ outcome = "start"
    /\ iterations = 0
    /\ round_start = <<>>
    /\ accumulated = <<>>
    /\ max_occ = [l \in LowerLetters |-> 0]
    /\ overwrote = FALSE
    /\ target \in Range(Dictionary)

\* the operator tries a word of the target's length
HonestGuess(g) == Len(g) = Len(target) /\ AcceptGuess(g)

\* and copies the game's greens
HonestGreens == AcceptPattern(HonestPattern(guess, target))

\* and the game's yellows
HonestRound == CompleteRound(HonestYellows(guess, target))

NextHonest ==
    \/ \E g \in HonestGuesses : HonestGuess(g)
    \/ HonestGreens
    \/ HonestRound
    \/ Quit(<<"q">>)

SpecHonest == InitHonest /\ [][NextHonest]_vars

(***************************************************************************)
(* Properties                                                              *)
(***************************************************************************)
\* s is t with some of its elements left out, the others in their order
RECURSIVE IsSubseq(_, _)
IsSubseq(s, t) ==
    IF Len(s) = 0 THEN TRUE
    ELSE IF Len(t) = 0 THEN FALSE
    ELSE IF Head(s) = Head(t) THEN IsSubseq(Tail(s), Tail(t))
    ELSE IsSubseq(s, Tail(t))

\* the dictionary words of the session's length
SessionWords == filter_by_length(Dictionary, Val(word_len))

\* C1: a round rejected with a FormatError (bad greens pattern, or bad yellows
\* line after a good pattern) leaves the four constraint structures and the
\* candidate list exactly as they were before the round.
C1_FormatErrorMutatesNothing ==
    [][outcome' = "format_error" /\ round_start # <<>>
          => /\ Constraints(State)' = Constraints(round_start[1])
             /\ current_words' = round_start[1].current_words]_vars

\* C2: in every step the new candidate list is an order-preserving subsequence
\* of the old one, so a word once removed never comes back.
C2_CandidatesShrink == [][IsSubseq(current_words', current_words)]_vars

C2_Witness ==
    /\ iterations = 2
    /\ outcome = "shown"
    /\ Len(current_words) = 1
    /\ excluded_letters # {}

\* C3: in every step each fixed position stays keyed, no minimum count
\* decreases, every banned (letter, position) pair stays, every excluded letter
\* stays, and no structure shrinks in size.
C3_ConstraintsOnlyGrow ==
    [][/\ DOMAIN greens \subseteq DOMAIN greens'
       /\ \A l \in DOMAIN required_min_counts :
             /\ l \in DOMAIN required_min_counts'
             /\ required_min_counts'[l] >= required_min_counts[l]
       /\ \A l \in DOMAIN banned_positions :
             /\ l \in DOMAIN banned_positions'
             /\ banned_positions[l] \subseteq banned_positions'[l]
       /\ excluded_letters \subseteq excluded_letters'
       /\ Cardinality(DOMAIN greens) <= Cardinality(DOMAIN greens')
       /\ Cardinality(DOMAIN required_min_counts)
             <= Cardinality(DOMAIN required_min_counts')
       /\ Cardinality(DOMAIN banned_positions)
             <= Cardinality(DOMAIN banned_positions')
       /\ Cardinality(excluded_letters) <= Cardinality(excluded_letters')]_vars

C3_Witness ==
    /\ iterations = 2
    /\ Cardinality(DOMAIN greens) = 2
    /\ \E l \in DOMAIN required_min_counts : required_min_counts[l] = 2
    /\ \E l \in DOMAIN banned_positions : Cardinality(banned_positions[l]) = 2
    /\ excluded_letters # {}

\* C4: no letter is at once excluded and required with a positive minimum count.
C4_ExcludedNeverRequired ==
    \A l \in excluded_letters : Get(required_min_counts, l, 0) = 0

\* C8: in a session whose feedback is the game's feedback for a target word of
\* the dictionary, the target is a candidate after every round.
C8_TargetSurvives == target \in Range(current_words)

C8_Witness ==
    /\ iterations >= 2
    /\ outcome = "shown"
    /\ current_words = <<target>>
    /\ banned_positions # EmptyDict
    /\ \E l \in DOMAIN required_min_counts :
          required_min_counts[l] < max_occ[l] /\ l \notin excluded_letters

\* what filtering the whole length-filtered dictionary with the current
\* constraints gives
FromScratch ==
    SelectSeq(SessionWords,
              LAMBDA w : candidate_ok(w, greens, required_min_counts, banned_positions,
                                      excluded_letters))

\* C9 as stated: after every completed round the candidate list equals the
\* from-scratch filtering of the length-filtered dictionary.
C9_EqualsFromScratch == outcome \in Completed => current_words = FromScratch

\* C9 as amended: after every completed round the candidate list is a
\* subsequence of the from-scratch filtering, and equals it as long as no round
\* has put a different letter on a position that was already fixed.
C9_SubsequenceOfFromScratch ==
    outcome \in Completed =>
        /\ IsSubseq(current_words, FromScratch)
        /\ ~overwrote => current_words = FromScratch

C9_Witness ==
    /\ outcome = "shown"
    /\ ~overwrote
    /\ max_occ["a"] = 2
    /\ max_occ["b"] = 2
    /\ current_words = FromScratch
    /\ Len(current_words) < Len(SessionWords)

\* C10: the minimum count required for a letter never exceeds the largest
\* number of occurrences of that letter in one guess of a completed round.
C10_MinWithinGuess ==
    \A l \in DOMAIN required_min_counts : required_min_counts[l] <= max_occ[l]

\* isConsistent as the specification words it: every fixed position holds its
\* letter, no excluded letter occurs, every letter with banned positions occurs
\* but at none of them, every minimum count is met
IsConsistent(w, fixed, minimum, banned, excluded) ==
    /\ \A i \in DOMAIN fixed : w[i + 1] = fixed[i]
    /\ Range(w) \cap excluded = {}
    /\ \A l \in DOMAIN banned :
          (\E i \in 1..Len(w) : w[i] = l) /\ (\A i \in banned[l] : w[i + 1] # l)
    /\ \A l \in DOMAIN minimum : CountIn(l, w) >= minimum[l]

\* C5: after a completed round every candidate is consistent with the round's
\* constraint state, and the candidates are exactly the consistent words of the
\* round's input list, in order; filtering them again changes nothing.
C5_FilterIsConsistentAndIdempotent ==
    [][outcome' \in Completed /\ pc = "yellows" =>
          /\ \A i \in 1..Len(current_words') :
                IsConsistent(current_words'[i], greens', required_min_counts',
                             banned_positions', excluded_letters')
          /\ current_words' =
                SelectSeq(current_words,
                          LAMBDA w : IsConsistent(w, greens', required_min_counts',
                                                  banned_positions', excluded_letters'))
          /\ current_words' =
                SelectSeq(current_words',
                          LAMBDA w : IsConsistent(w, greens', required_min_counts',
                                                  banned_positions', excluded_letters'))
      ]_vars

C5_Witness ==
    /\ outcome = "shown"
    /\ iterations = 2
    /\ greens # EmptyDict
    /\ banned_positions # EmptyDict
    /\ required_min_counts # EmptyDict
    /\ Len(current_words) < Len(SessionWords)

\* C6: when a round leaves no candidate the loop has not been left, the four
\* constraint structures are exactly what the accumulator made them in that
\* round, and the loop is back at its prompt, where it accepts the next guess.
C6_EmptyKeepsConstraintsAndContinues ==
    outcome = "empty" =>
        /\ pc = "guess"
        /\ accumulated = <<Constraints(State)>>
        /\ \E g \in Guesses : GuessAccepted(g)

C6_Witness ==
    /\ outcome = "empty"
    /\ iterations = 2
    /\ required_min_counts # EmptyDict
    /\ excluded_letters # {}
    /\ accumulated = <<Constraints(State)>>

\* number of positions of the guess g that hold ch and carry a mark for ch
MarkedOccurrences(g, fixed, misplaced, ch) ==
    Cardinality({i \in 0..(Len(g) - 1) :
                    /\ g[i + 1] = ch
                    /\ \/ i \in DOMAIN fixed /\ fixed[i] = ch
                       \/ \E k \in 1..Len(misplaced) : misplaced[k] = <<ch, i>>})

\* the marked occurrences of ch in this iteration's guess, yp being its yellows
Marked(yp, ch) ==
    MarkedOccurrences(LowerStr(guess), greens_update,
                      parse_yellows(yp, Val(word_len)), ch)

\* The exclusion half of C7 on its own: a completed round excludes exactly the
\* guess letters none of whose occurrences is marked, whichever accepted yellows
\* line produced the round's constraints.
C7_ExcludesExactlyUnmarked ==
    [][pc = "yellows" /\ outcome' \in Completed =>
          \A yp \in YellowLines :
             (/\ yellows_ok(yp, Val(word_len))
              /\ accumulated' = <<Constraints(feed_back(State, guess, greens_update, yp))>>)
             => excluded_letters' = excluded_letters \cup
                   {ch \in Range(LowerStr(guess)) : Marked(yp, ch) = 0}]_vars

\* C7: a completed round excludes exactly the guess letters none of whose
\* occurrences is marked; a letter that occurs twice in the guess with one
\* occurrence marked is not excluded by the round and its minimum count becomes
\* the maximum of its previous minimum and the number of marked occurrences.
C7_ExcludedIffUnmarked ==
    [][\A yp \in YellowLines :
          CompleteRound(yp) =>
             /\ excluded_letters' = excluded_letters \cup
                   {ch \in Range(LowerStr(guess)) : Marked(yp, ch) = 0}
             /\ \A ch \in Range(LowerStr(guess)) :
                   (CountIn(ch, LowerStr(guess)) = 2 /\ Marked(yp, ch) = 1)
                   => /\ (ch \in excluded_letters' <=> ch \in excluded_letters)
                      /\ required_min_counts'[ch] =
                            Max(Get(required_min_counts, ch, 0), 1)]_vars

====
